---- MODULE Spec2Model ----
(***************************************************************************)
(* Model of source/backend/ClassRegistry.ts: the ClassRegistry (class map, *)
(* lazy synthesis of constructors from metadata) and the MetaDataRegistry. *)
(*                                                                         *)
(* A JavaScript string is a sequence of one-character strings, so that     *)
(* toLowerCase, split(":") and concatenation are computed, not assumed.    *)
(* A Map is a function whose DOMAIN is the set of keys it holds.           *)
(* Objects with identity (constructors, Schema objects) live in heaps: a   *)
(* constructor is its index in ctors, a Schema its index in schemaObjs;    *)
(* index 0 is undefined.                                                   *)
(***************************************************************************)
EXTENDS Integers, Sequences, FiniteSets, TLC

VARIABLES
  classMap,           \* ClassRegistry.classMap: key -> constructor
  ctors,              \* heap of constructors: [name, schema, base]
  schemaObjs,         \* heap of Schema objects: the name of each
  registeredSchemas,  \* Schemas directory: schema name -> Schema object
  registry,           \* MetaDataRegistry._registry: key -> EntityMetaData
  last,               \* history: the last operation, its argument and outcome
  callers,            \* interleaved callers: each one's call stack and outcome
  everSet             \* history: the <<key, constructor>> pairs the callers set

vars ==
  <<classMap, ctors, schemaObjs, registeredSchemas, registry, last, callers, everSet>>

-----------------------------------------------------------------------------
(* Bounds *)

\* constructors that may ever be created (hand-written and synthesized)
MaxCtors == 4
\* Schema objects that may ever be created (hand-written and proxies)
MaxSchemas == 2
\* call frames the recursion generateClass -> getClass may nest before the
\* runtime throws RangeError (the longest acyclic chain modelled is 3)
StackLimit == 4

-----------------------------------------------------------------------------
(* Strings *)

LowerChar(c) ==
  CASE c = "S" -> "s" [] c = "A" -> "a" [] c = "B" -> "b" [] c = "C" -> "c"
    [] OTHER -> c

toLowerCase(s) == [i \in 1..Len(s) |-> LowerChar(s[i])]

RECURSIVE splitFrom(_, _, _)
splitFrom(s, cur, acc) ==
  IF s = <<>> THEN Append(acc, cur)
  ELSE IF Head(s) = ":" THEN splitFrom(Tail(s), <<>>, Append(acc, cur))
  ELSE splitFrom(Tail(s), Append(cur, Head(s)), acc)

\* String.prototype.split(":")
split(s) == splitFrom(s, <<>>, <<>>)

FullName(schemaName, className) == schemaName \o <<":">> \o className

-----------------------------------------------------------------------------
(* Maps *)

EmptyMap == [k \in {} |-> 0]
MapHas(m, k) == k \in DOMAIN m
MapSet(m, k, v) == [x \in (DOMAIN m) \cup {k} |-> IF x = k THEN v ELSE m[x]]

-----------------------------------------------------------------------------
(* Errors.  errorNumber and cls are what the code can observe of a thrown   *)
(* value; madeBy is history: the place that produced it.                    *)

NoError == [cls |-> "none", errorNumber |-> "Success", madeBy |-> "none"]
IModelError(errorNumber, madeBy) ==
  [cls |-> "IModelError", errorNumber |-> errorNumber, madeBy |-> madeBy]
JsError(cls, madeBy) == [cls |-> cls, errorNumber |-> "none", madeBy |-> madeBy]

isClassNotFoundError(err) ==
  err.cls = "IModelError" /\ err.errorNumber = "NotFound"

isMetaDataNotFoundError(err) ==
  err.cls = "IModelError" /\ err.errorNumber = "NotFound"

makeClassNotFoundError == IModelError("NotFound", "makeClassNotFoundError")

makeMetaDataNotFoundError == IModelError("NotFound", "makeMetaDataNotFoundError")

BadArgError == IModelError("BadArg", "createInstance")

-----------------------------------------------------------------------------
(* The mutable objects an operation works on, threaded through its calls.   *)
(* log is history: the keys set in classMap, in order, by this operation.   *)

Heap ==
  [classMap |-> classMap, ctors |-> ctors, schemaObjs |-> schemaObjs,
   registeredSchemas |-> registeredSchemas, log |-> <<>>]

Return(st, ctor) == [st |-> st, ok |-> TRUE, ctor |-> ctor, err |-> NoError]
Throw(st, err) == [st |-> st, ok |-> FALSE, ctor |-> 0, err |-> err]

-----------------------------------------------------------------------------
(* Schemas (Schema.ts): the directory of registered Schema objects          *)

getRegisteredSchema(st, domainName) ==
  IF MapHas(st.registeredSchemas, domainName)
  THEN st.registeredSchemas[domainName] ELSE 0

registerSchema(st, schema) ==
  [st EXCEPT !.registeredSchemas = MapSet(@, st.schemaObjs[schema], schema)]

-----------------------------------------------------------------------------
(* ClassRegistry *)

getKey(schemaName, className) == toLowerCase(FullName(schemaName, className))

lookupClass(st, name) ==
  LET key == toLowerCase(name)
  IN IF MapHas(st.classMap, key) THEN st.classMap[key] ELSE 0

isClassRegistered(st, schemaName, className) ==
  MapHas(st.classMap, getKey(schemaName, className))

\* the effect of evaluating the text generateProxySchema returns:
\* "class <schemaName> extends Schema {} ClassRegistry.registerSchema(<schemaName>);"
generateProxySchema(st, schemaName) ==
  registerSchema([st EXCEPT !.schemaObjs = Append(@, schemaName)],
                 Len(st.schemaObjs) + 1)

\* registerEcClass keying the map by the name as written, without toLowerCase
registerEcClassRawKey(st, ctor) ==
  IF st.ctors[ctor].schema = 0
  THEN Throw(st, JsError("TypeError", "registerEcClass"))
  ELSE LET key == FullName(st.schemaObjs[st.ctors[ctor].schema], st.ctors[ctor].name)
       IN Return([st EXCEPT !.classMap = MapSet(@, key, ctor),
                            !.log = Append(@, key)], ctor)

registerEcClass(st, ctor) ==
  IF st.ctors[ctor].schema = 0
  THEN Throw(st, JsError("TypeError", "registerEcClass"))
  ELSE LET key == getKey(st.schemaObjs[st.ctors[ctor].schema], st.ctors[ctor].name)
       IN Return([st EXCEPT !.classMap = MapSet(@, key, ctor),
                            !.log = Append(@, key)], ctor)

\* the effect of evaluating the text generateClassFromMetaData returns:
\* the proxy schema when the schema is not registered, then
\* "class <className> extends ClassRegistry.lookupClass(baseClasses[0]) { }"
\* (a TypeError when that lookup is undefined), then
\* "<className>.schema = ClassRegistry.getRegisteredSchema('<schema>');"
\* generateClassFromMetaData declaring the proxy schema without asking whether
\* the schema is registered
generateClassFromMetaDataAlwaysProxy(st, entityMetaData) ==
  LET name == split(CHOOSE e \in entityMetaData.ecclass : TRUE)
      schema == name[1]
      className == name[2]
      hasBase == Len(entityMetaData.baseClasses) # 0
      st1 == generateProxySchema(st, schema)
      base == IF hasBase THEN lookupClass(st1, entityMetaData.baseClasses[1]) ELSE 0
  IN IF hasBase /\ base = 0
     THEN Throw(st1, JsError("TypeError", "extends"))
     ELSE Return([st1 EXCEPT !.ctors = Append(@,
                     [name |-> className,
                      schema |-> getRegisteredSchema(st1, schema),
                      base |-> base])],
                 Len(st1.ctors) + 1)

\* generateClassFromMetaData leaving the extends clause out
generateClassFromMetaDataNoExtends(st, entityMetaData) ==
  LET name == split(CHOOSE e \in entityMetaData.ecclass : TRUE)
      schema == name[1]
      className == name[2]
      domainDef == getRegisteredSchema(st, schema) = 0
      st1 == IF domainDef THEN generateProxySchema(st, schema) ELSE st
  IN Return([st1 EXCEPT !.ctors = Append(@,
                [name |-> className,
                 schema |-> getRegisteredSchema(st1, schema),
                 base |-> 0])],
            Len(st1.ctors) + 1)

generateClassFromMetaData(st, entityMetaData) ==
  LET name == split(CHOOSE e \in entityMetaData.ecclass : TRUE)
      schema == name[1]
      className == name[2]
      hasBase == Len(entityMetaData.baseClasses) # 0
      domainDef == getRegisteredSchema(st, schema) = 0
      st1 == IF domainDef THEN generateProxySchema(st, schema) ELSE st
      base == IF hasBase THEN lookupClass(st1, entityMetaData.baseClasses[1]) ELSE 0
  IN IF hasBase /\ base = 0
     THEN Throw(st1, JsError("TypeError", "extends"))
     ELSE Return([st1 EXCEPT !.ctors = Append(@,
                     [name |-> className,
                      schema |-> getRegisteredSchema(st1, schema),
                      base |-> base])],
                 Len(st1.ctors) + 1)

\* generateClassForEntity returning the class it made without registering it
generateClassForEntityNoRegister(st, entityMetaData) ==
  IF entityMetaData.ecclass = {}
  THEN Throw(st, JsError("TypeError", "generateClassForEntity"))
  ELSE generateClassFromMetaData(st, entityMetaData)

generateClassForEntity(st, entityMetaData) ==
  IF entityMetaData.ecclass = {}
  THEN Throw(st, JsError("TypeError", "generateClassForEntity"))
  ELSE LET made == generateClassFromMetaData(st, entityMetaData)
       IN IF ~made.ok THEN made
          ELSE LET reg == registerEcClass(made.st, made.ctor)
               IN IF ~reg.ok THEN reg
                  ELSE Return(reg.st,
                         lookupClass(reg.st, CHOOSE e \in entityMetaData.ecclass : TRUE))

\* find looking the name up as written, without toLowerCase
findCaseSensitive(classFullName) ==
  LET key == classFullName
  IN IF MapHas(registry, key) THEN {registry[key]} ELSE {}

\* MetaDataRegistry.find: the set holding the descriptor, or {} for undefined
find(classFullName) ==
  LET key == toLowerCase(classFullName)
  IN IF MapHas(registry, key) THEN {registry[key]} ELSE {}

RECURSIVE getClass(_, _, _)
RECURSIVE generateClass(_, _, _)

\* generateClass that does not resolve the base class first
generateClassSkipBase(st, classFullName, depth) ==
  LET metadata == find(classFullName)
  IN IF metadata = {} \/ (\E m \in metadata : m.ecclass = {})
     THEN Throw(st, makeMetaDataNotFoundError)
     ELSE generateClassForEntity(st, CHOOSE m \in metadata : TRUE)

\* generateClass testing only that the metadata is there, not its ecclass
generateClassNoEcclassTest(st, classFullName, depth) ==
  LET metadata == find(classFullName)
  IN IF metadata = {}
     THEN Throw(st, makeMetaDataNotFoundError)
     ELSE LET md == CHOOSE m \in metadata : TRUE
              up == IF Len(md.baseClasses) # 0
                    THEN getClass(st, md.baseClasses[1], depth + 1)
                    ELSE Return(st, 0)
          IN IF ~up.ok THEN up ELSE generateClassForEntity(up.st, md)

\* generateClass resolving its base class by generateClass, without the map
\* test of getClass
generateClassBaseUnchecked(st, classFullName, depth) ==
  LET metadata == find(classFullName)
  IN IF metadata = {} \/ (\E m \in metadata : m.ecclass = {})
     THEN Throw(st, makeMetaDataNotFoundError)
     ELSE LET md == CHOOSE m \in metadata : TRUE
              up == IF Len(md.baseClasses) = 0 THEN Return(st, 0)
                    ELSE IF depth >= StackLimit
                    THEN Throw(st, JsError("RangeError", "stack"))
                    ELSE generateClass(st, md.baseClasses[1], depth + 1)
          IN IF ~up.ok THEN up ELSE generateClassForEntity(up.st, md)

\* generateClass resolving the second base class as well as the first
generateClassAllBases(st, classFullName, depth) ==
  LET metadata == find(classFullName)
  IN IF metadata = {} \/ (\E m \in metadata : m.ecclass = {})
     THEN Throw(st, makeMetaDataNotFoundError)
     ELSE LET md == CHOOSE m \in metadata : TRUE
              up1 == IF Len(md.baseClasses) # 0
                     THEN getClass(st, md.baseClasses[1], depth + 1)
                     ELSE Return(st, 0)
              up == IF up1.ok /\ Len(md.baseClasses) > 1
                    THEN getClass(up1.st, md.baseClasses[2], depth + 1)
                    ELSE up1
          IN IF ~up.ok THEN up ELSE generateClassForEntity(up.st, md)

\* generateClass going on to synthesize after its base class failed to resolve
generateClassIgnoreBaseFailure(st, classFullName, depth) ==
  LET metadata == find(classFullName)
  IN IF metadata = {} \/ (\E m \in metadata : m.ecclass = {})
     THEN Throw(st, makeMetaDataNotFoundError)
     ELSE LET md == CHOOSE m \in metadata : TRUE
              up == IF Len(md.baseClasses) # 0
                    THEN getClass(st, md.baseClasses[1], depth + 1)
                    ELSE Return(st, 0)
          IN generateClassForEntity(up.st, md)

generateClass(st, classFullName, depth) ==
  LET metadata == find(classFullName)
  IN IF metadata = {} \/ (\E m \in metadata : m.ecclass = {})
     THEN Throw(st, makeMetaDataNotFoundError)
     ELSE LET md == CHOOSE m \in metadata : TRUE
              up == IF Len(md.baseClasses) # 0
                    THEN getClass(st, md.baseClasses[1], depth + 1)
                    ELSE Return(st, 0)
          IN IF ~up.ok THEN up ELSE generateClassForEntity(up.st, md)

\* getClass that never looks in the class map
getClassAlwaysGenerate(st, fullName, depth) ==
  IF depth > StackLimit THEN Throw(st, JsError("RangeError", "stack"))
  ELSE generateClass(st, fullName, depth)

\* getClass looking the name up as written, without toLowerCase
getClassCaseSensitive(st, fullName, depth) ==
  LET key == fullName
  IN IF depth > StackLimit THEN Throw(st, JsError("RangeError", "stack"))
     ELSE IF ~MapHas(st.classMap, key) THEN generateClass(st, fullName, depth)
     ELSE Return(st, st.classMap[key])

getClass(st, fullName, depth) ==
  LET key == toLowerCase(fullName)
  IN IF depth > StackLimit THEN Throw(st, JsError("RangeError", "stack"))
     ELSE IF ~MapHas(st.classMap, key) THEN generateClass(st, fullName, depth)
     ELSE IF st.classMap[key] = 0 THEN Throw(st, makeClassNotFoundError)
     ELSE Return(st, st.classMap[key])

\* createInstance without the test of props.classFullName
createInstanceNoArgCheck(st, props) ==
  LET hit == lookupClass(st, props.classFullName)
      gen == IF hit = 0 THEN generateClass(st, props.classFullName, 1)
             ELSE Return(st, hit)
  IN IF ~gen.ok THEN gen
     ELSE IF gen.ctor = 0 THEN Throw(gen.st, makeClassNotFoundError)
     ELSE gen

createInstance(st, props) ==
  IF ~props.hasName \/ props.classFullName = <<>>
  THEN Throw(st, BadArgError)
  ELSE LET hit == lookupClass(st, props.classFullName)
           gen == IF hit = 0 THEN generateClass(st, props.classFullName, 1)
                  ELSE Return(st, hit)
       IN IF ~gen.ok THEN gen
          ELSE IF gen.ctor = 0 THEN Throw(gen.st, makeClassNotFoundError)
          ELSE gen

RECURSIVE registerMembers(_, _, _)
registerMembers(st, members, schema) ==
  IF members = <<>> THEN Return(st, 0)
  ELSE LET thisMember == Head(members)
       IN IF thisMember.key = <<>> \/ thisMember.fn = 0
          THEN registerMembers(st, Tail(members), schema)
          ELSE LET st1 == [st EXCEPT !.ctors[thisMember.fn].schema = schema]
                   reg == registerEcClass(st1, thisMember.fn)
               IN IF ~reg.ok THEN reg
                  ELSE registerMembers(reg.st, Tail(members), schema)

registerModuleClasses(st, moduleObj, schema) == registerMembers(st, moduleObj, schema)

-----------------------------------------------------------------------------
(* Inputs *)

RootName == FullName(<<"S">>, <<"A">>)
MidName == FullName(<<"S">>, <<"B">>)
LeafName == FullName(<<"S">>, <<"C">>)

\* class full names the callers ask for
ReqNames == {RootName, MidName, toLowerCase(MidName), LeafName}

\* EntityMetaData: ecclass is {} when the descriptor has no ecclass
RootMeta == [ecclass |-> {RootName}, baseClasses |-> <<>>]
MidMeta == [ecclass |-> {MidName}, baseClasses |-> <<RootName>>]
LeafMeta == [ecclass |-> {LeafName}, baseClasses |-> <<MidName>>]
NoIdMeta == [ecclass |-> {}, baseClasses |-> <<>>]
SelfMeta == [ecclass |-> {RootName}, baseClasses |-> <<RootName>>]
\* S:B with a secondary base class after its primary base S:A
MixMeta == [ecclass |-> {MidName}, baseClasses |-> <<RootName, LeafName>>]

MetaData == {RootMeta, MidMeta, LeafMeta, NoIdMeta, SelfMeta, MixMeta}

\* the (classFullName, metaData) pairs MetaDataRegistry.add is called with
AddInputs ==
  { <<RootName, RootMeta>>, <<RootName, NoIdMeta>>, <<RootName, SelfMeta>>,
    <<MidName, MidMeta>>, <<toLowerCase(MidName), MidMeta>>, <<MidName, RootMeta>>,
    <<MidName, MixMeta>>, <<LeafName, LeafMeta>> }

\* class full names find and lookupClass are asked about
QueryNames == {toLowerCase(MidName), LeafName}

\* the (schemaName, className) pairs isClassRegistered is asked about
RegInputs == { <<split(n)[1], split(n)[2]>> : n \in QueryNames }

\* EntityProps: classFullName may be missing or empty
Props ==
  {[hasName |-> TRUE, classFullName |-> n] : n \in ReqNames \cup {<<>>}}
    \cup {[hasName |-> FALSE, classFullName |-> <<>>]}

\* the hand-written Schema objects the modules are registered with: the one
\* Init puts in schemaObjs
HandSchemas == {1}

\* module objects: member name and value (fn = 0: the value is no function)
Modules ==
  { << [key |-> <<"C">>, fn |-> 1] >>,
    << [key |-> <<>>, fn |-> 1], [key |-> <<"v">>, fn |-> 0] >> }

-----------------------------------------------------------------------------
(* State machine *)

\* md is the descriptor add was given or find returned, registered the answer
\* of isClassRegistered
NoOp(op) ==
  [op |-> op, name |-> <<>>, ok |-> TRUE, ctor |-> 0, err |-> NoError, log |-> <<>>,
   md |-> {}, registered |-> FALSE]

Callers == {1, 2}

Idle == [state |-> "idle", name |-> <<>>, stack |-> <<>>, ctor |-> 0, err |-> NoError]

\* one hand-written class C with no schema yet, one hand-written Schema S
\* that is not registered, and empty maps
Init ==
  /\ classMap = EmptyMap
  /\ ctors = << [name |-> <<"C">>, schema |-> 0, base |-> 0] >>
  /\ schemaObjs = << <<"S">> >>
  /\ registeredSchemas = EmptyMap
  /\ registry = EmptyMap
  /\ last = NoOp("init")
  /\ callers = [p \in Callers |-> Idle]
  /\ everSet = {}

Commit(op, name, r) ==
  /\ Len(r.st.ctors) <= MaxCtors
  /\ Len(r.st.schemaObjs) <= MaxSchemas
  /\ classMap' = r.st.classMap
  /\ ctors' = r.st.ctors
  /\ schemaObjs' = r.st.schemaObjs
  /\ registeredSchemas' = r.st.registeredSchemas
  /\ last' = [op |-> op, name |-> name, ok |-> r.ok, ctor |-> r.ctor,
              err |-> r.err, log |-> r.st.log, md |-> {}, registered |-> FALSE]
  /\ UNCHANGED <<registry, callers, everSet>>

GetClass ==
  \E n \in ReqNames : Commit("getClass", n, getClass(Heap, n, 1))

CreateInstance ==
  \E props \in Props :
    Commit("createInstance", props.classFullName, createInstance(Heap, props))

GenerateClassForEntity ==
  \E md \in MetaData :
    Commit("generateClassForEntity",
           IF md.ecclass = {} THEN <<>> ELSE CHOOSE e \in md.ecclass : TRUE,
           generateClassForEntity(Heap, md))

RegisterEcClass ==
  \E c \in 1..Len(ctors) : Commit("registerEcClass", <<>>, registerEcClass(Heap, c))

RegisterModuleClasses ==
  \E m \in Modules, schema \in HandSchemas :
    Commit("registerModuleClasses", <<>>, registerModuleClasses(Heap, m, schema))

\* ClassRegistry.registerSchema of a Schema whose name is not yet registered
RegisterSchema ==
  \E s \in 1..Len(schemaObjs) :
    /\ getRegisteredSchema(Heap, schemaObjs[s]) = 0
    /\ Commit("registerSchema", <<>>, Return(registerSchema(Heap, s), 0))

\* MetaDataRegistry.add
Add ==
  \E in \in AddInputs :
    /\ registry' = MapSet(registry, toLowerCase(in[1]), in[2])
    /\ last' = [NoOp("add") EXCEPT !.name = in[1], !.md = {in[2]}]
    /\ UNCHANGED <<classMap, ctors, schemaObjs, registeredSchemas, callers, everSet>>

\* MetaDataRegistry.find
Find ==
  \E n \in QueryNames :
    /\ last' = [NoOp("find") EXCEPT !.name = n, !.md = find(n)]
    /\ UNCHANGED <<classMap, ctors, schemaObjs, registeredSchemas, registry,
                   callers, everSet>>

\* lookupClass falling back to synthesis on a miss, as getClass does
LookupClassSynthesizing ==
  \E n \in QueryNames :
    Commit("lookupClass", n, getClass(Heap, n, 1))

LookupClass ==
  \E n \in QueryNames :
    Commit("lookupClass", n, Return(Heap, lookupClass(Heap, n)))

IsClassRegistered ==
  \E in \in RegInputs :
    /\ last' = [NoOp("isClassRegistered") EXCEPT
                  !.name = FullName(in[1], in[2]),
                  !.registered = isClassRegistered(Heap, in[1], in[2])]
    /\ UNCHANGED <<classMap, ctors, schemaObjs, registeredSchemas, registry,
                   callers, everSet>>

Next ==
  \/ GetClass
  \/ CreateInstance
  \/ GenerateClassForEntity
  \/ RegisterEcClass
  \/ RegisterModuleClasses
  \/ RegisterSchema
  \/ Add
  \/ Find
  \/ LookupClass
  \/ IsClassRegistered

Spec == Init /\ [][Next]_vars

-----------------------------------------------------------------------------
(* getClass taken one statement at a time by two callers whose steps        *)
(* interleave.  A caller's stack holds its open calls, innermost first; a    *)
(* frame is at the statement it runs next.  getClass ends in                 *)
(* "return generateClass(...)", so its frame becomes the generateClass one.  *)

\* the names the racing callers ask for: S:C has no metadata
RaceNames == {RootName, MidName, LeafName}

Frame(fn, name, pc) == [fn |-> fn, name |-> name, pc |-> pc, md |-> {}, ctor |-> 0]

At(p, fn, pc) ==
  /\ callers[p].state = "running"
  /\ Head(callers[p].stack).fn = fn
  /\ Head(callers[p].stack).pc = pc

\* the innermost call returns ctor: to the generateClass that asked for its
\* base class, which goes on, or to the caller
ReturnTo(c, ctor) ==
  IF Tail(c.stack) = <<>>
  THEN [c EXCEPT !.state = "returned", !.stack = <<>>, !.ctor = ctor]
  ELSE [c EXCEPT !.stack = Tail(c.stack)]

\* no frame catches: the caller gets the error
ThrowTo(c, err) == [c EXCEPT !.state = "threw", !.stack = <<>>, !.err = err]

RaceCall(p) ==
  /\ callers[p].state = "idle"
  /\ \E n \in RaceNames :
       callers' = [callers EXCEPT ![p] =
         [Idle EXCEPT !.state = "running", !.name = n,
                      !.stack = <<Frame("getClass", n, "has")>>]]
  /\ UNCHANGED <<classMap, ctors, schemaObjs, registeredSchemas, registry, last, everSet>>

\* getClass: if (!classMap.has(key)) return generateClass(fullName, iModel)
RaceHas(p) ==
  /\ At(p, "getClass", "has")
  /\ LET f == Head(callers[p].stack)
     IN callers' = [callers EXCEPT ![p].stack =
          IF MapHas(classMap, toLowerCase(f.name))
          THEN <<[f EXCEPT !.pc = "get"]>> \o Tail(@)
          ELSE <<Frame("generateClass", f.name, "find")>> \o Tail(@)]
  /\ UNCHANGED <<classMap, ctors, schemaObjs, registeredSchemas, registry, last, everSet>>

\* getClass: ctor = classMap.get(key); return ctor
RaceGet(p) ==
  /\ At(p, "getClass", "get")
  /\ callers' = [callers EXCEPT ![p] =
       ReturnTo(@, classMap[toLowerCase(Head(@.stack).name)])]
  /\ UNCHANGED <<classMap, ctors, schemaObjs, registeredSchemas, registry, last, everSet>>

\* generateClass: find the metadata, throw when it is missing, call getClass
\* for baseClasses[0]
RaceFind(p) ==
  /\ At(p, "generateClass", "find")
  /\ LET f == Head(callers[p].stack)
         metadata == find(f.name)
     IN callers' = [callers EXCEPT ![p] =
          IF metadata = {} \/ (\E m \in metadata : m.ecclass = {})
          THEN ThrowTo(@, makeMetaDataNotFoundError)
          ELSE LET md == CHOOSE m \in metadata : TRUE
                   me == [f EXCEPT !.pc = "eval", !.md = metadata]
               IN IF Len(md.baseClasses) # 0
                  THEN [@ EXCEPT !.stack =
                          <<Frame("getClass", md.baseClasses[1], "has"), me>>
                            \o Tail(@)]
                  ELSE [@ EXCEPT !.stack = <<me>> \o Tail(@)]]
  /\ UNCHANGED <<classMap, ctors, schemaObjs, registeredSchemas, registry, last, everSet>>

\* generateClassForEntity: eval of the text of generateClassFromMetaData
RaceEval(p) ==
  /\ At(p, "generateClass", "eval")
  /\ LET f == Head(callers[p].stack)
         made == generateClassFromMetaData(Heap, CHOOSE m \in f.md : TRUE)
     IN /\ Len(made.st.ctors) <= MaxCtors
        /\ Len(made.st.schemaObjs) <= MaxSchemas
        /\ ctors' = made.st.ctors
        /\ schemaObjs' = made.st.schemaObjs
        /\ registeredSchemas' = made.st.registeredSchemas
        /\ callers' = [callers EXCEPT ![p] =
             IF made.ok
             THEN [@ EXCEPT !.stack =
                     <<[f EXCEPT !.pc = "register", !.ctor = made.ctor]>> \o Tail(@)]
             ELSE ThrowTo(@, made.err)]
  /\ UNCHANGED <<classMap, registry, last, everSet>>

\* generateClassForEntity: eval of "ClassRegistry.registerEcClass(<className>);"
RaceRegister(p) ==
  /\ At(p, "generateClass", "register")
  /\ LET f == Head(callers[p].stack)
         reg == registerEcClass(Heap, f.ctor)
     IN /\ classMap' = reg.st.classMap
        /\ everSet' = everSet \cup {<<reg.st.log[i], f.ctor>> : i \in 1..Len(reg.st.log)}
        /\ callers' = [callers EXCEPT ![p] =
             IF reg.ok
             THEN [@ EXCEPT !.stack = <<[f EXCEPT !.pc = "lookup"]>> \o Tail(@)]
             ELSE ThrowTo(@, reg.err)]
  /\ UNCHANGED <<ctors, schemaObjs, registeredSchemas, registry, last>>

\* generateClassForEntity: ctor = lookupClass(entityMetaData.ecclass); return ctor
RaceLookup(p) ==
  /\ At(p, "generateClass", "lookup")
  /\ LET f == Head(callers[p].stack)
         md == CHOOSE m \in f.md : TRUE
     IN callers' = [callers EXCEPT ![p] =
          ReturnTo(@, lookupClass(Heap, CHOOSE e \in md.ecclass : TRUE))]
  /\ UNCHANGED <<classMap, ctors, schemaObjs, registeredSchemas, registry, last, everSet>>

\* the metadata of S:A and S:B is cached, nothing is registered
InitRace ==
  /\ classMap = EmptyMap
  /\ ctors = << [name |-> <<"C">>, schema |-> 0, base |-> 0] >>
  /\ schemaObjs = << <<"S">> >>
  /\ registeredSchemas = EmptyMap
  /\ registry = (toLowerCase(RootName) :> RootMeta) @@ (toLowerCase(MidName) :> MidMeta)
  /\ last = NoOp("init")
  /\ callers = [p \in Callers |-> Idle]
  /\ everSet = {}

NextRace ==
  \E p \in Callers :
    \/ RaceCall(p)
    \/ RaceHas(p)
    \/ RaceGet(p)
    \/ RaceFind(p)
    \/ RaceEval(p)
    \/ RaceRegister(p)
    \/ RaceLookup(p)

SpecRace == InitRace /\ [][NextRace]_vars

-----------------------------------------------------------------------------
(* Properties *)

\* the descriptor cached for name has no ecclass of its own
NoIdentity(name) == find(name) = {} \/ (\E m \in find(name) : m.ecclass = {})

\* the descriptor cached for name, if any, carries name as its ecclass,
\* ignoring letter case
OwnName(name) ==
  \A m \in find(name) : \A e \in m.ecclass : toLowerCase(e) = toLowerCase(name)

\* the keys of the primary-base chain of name, as the metadata cache gives it:
\* name, its baseClasses[0], that one's baseClasses[0], ...
RECURSIVE chainFrom(_, _)
chainFrom(name, fuel) ==
  IF fuel = 0 \/ NoIdentity(name) THEN <<toLowerCase(name)>>
  ELSE LET md == CHOOSE m \in find(name) : TRUE
       IN IF Len(md.baseClasses) = 0 THEN <<toLowerCase(name)>>
          ELSE <<toLowerCase(name)>> \o chainFrom(md.baseClasses[1], fuel - 1)

Chain(name) == chainFrom(name, StackLimit)

Reverse(seq) == [i \in 1..Len(seq) |-> seq[Len(seq) + 1 - i]]

\* the class names along the prototype chain of a constructor
RECURSIVE TypeChain(_, _)
TypeChain(heap, ctor) ==
  IF ctor = 0 THEN <<>>
  ELSE <<heap[ctor].name>> \o TypeChain(heap, heap[ctor].base)

\* the metadata of the end-to-end scenario: S:A with no base, S:B with base
\* S:A, S:C with base S:B
E2ERegistry ==
  (toLowerCase(RootName) :> RootMeta) @@ (toLowerCase(MidName) :> MidMeta)
    @@ (toLowerCase(LeafName) :> LeafMeta)

\* the operations that may synthesize a class
SynthesisOps == {"getClass", "createInstance", "generateClassForEntity"}

\* the first place of key in log, 0 when it is not there
Pos(log, key) ==
  IF \E i \in 1..Len(log) : log[i] = key
  THEN CHOOSE i \in 1..Len(log) :
         log[i] = key /\ \A j \in 1..(i - 1) : log[j] # key
  ELSE 0

\* after an operation that took the class map from pre to map and set the keys
\* of log in order: every class of the chain of name is registered, each one
\* the operation registered had its primary base registered before it, and
\* each constructor's base is the registered constructor of its primary base
\* (none for a class whose descriptor has no base class)
ChainRegistered(name, pre, map, heap, log) ==
  LET chain == Chain(name)
  IN /\ \A i \in 1..Len(chain) : chain[i] \in DOMAIN map
     /\ \A i \in 1..(Len(chain) - 1) :
          Pos(log, chain[i]) > 0
            => \/ chain[i + 1] \in DOMAIN pre
               \/ (Pos(log, chain[i + 1]) > 0
                     /\ Pos(log, chain[i + 1]) < Pos(log, chain[i]))
     /\ \A i \in 1..Len(chain) :
          ~NoIdentity(chain[i])
            => heap[map[chain[i]]].base =
                 IF i < Len(chain) THEN map[chain[i + 1]] ELSE 0

\* C3: the failure kinds are distinguishable: a failure made by
\* makeMetaDataNotFoundError is never classified by isClassNotFoundError, and a
\* failure made by makeClassNotFoundError is never classified by
\* isMetaDataNotFoundError.
C3_KindsDistinguishable ==
  /\ last.err.madeBy = "makeMetaDataNotFoundError" => ~isClassNotFoundError(last.err)
  /\ last.err.madeBy = "makeClassNotFoundError" => ~isMetaDataNotFoundError(last.err)

\* C7: a createInstance whose props carry no classFullName, or an empty one,
\* fails with BadArg and changes neither the class map nor the constructors nor
\* the schema directory, whatever they and the metadata cache hold.
C7_BadArgNoMutation ==
  [][ (last'.op = "createInstance" /\ last'.name = <<>>)
        => /\ ~last'.ok
           /\ last'.err = BadArgError
           /\ classMap' = classMap
           /\ ctors' = ctors
           /\ schemaObjs' = schemaObjs
           /\ registeredSchemas' = registeredSchemas ]_vars

C7_Witness ==
  /\ last.op = "createInstance" /\ last.name = <<>>
  /\ last.err.errorNumber = "BadArg"
  /\ DOMAIN classMap # {}
  /\ DOMAIN registry # {}

\* C10: once the class map holds a constructor under a key, every later state
\* holds the same constructor under that key.
C10_NeverReplaced ==
  [][ \A k \in DOMAIN classMap :
        k \in DOMAIN classMap' /\ classMap'[k] = classMap[k] ]_vars

\* C1 as claimed: getClass(n) called twice returns the same constructor both
\* times, and the second call synthesizes nothing.
C1_IdempotentLookupAnyDescriptor ==
  [][ (last.op = "getClass" /\ last.ok /\ last'.op = "getClass"
         /\ last'.name = last.name)
        => /\ last'.ok
           /\ last'.ctor = last.ctor
           /\ last'.log = <<>>
           /\ ctors' = ctors ]_vars

\* C1 amended: when the descriptor cached for n carries n as its own ecclass
\* (ignoring case), getClass(n) called twice returns the same constructor both
\* times, and the second call synthesizes nothing.
C1_IdempotentLookup ==
  [][ (last.op = "getClass" /\ last.ok /\ last'.op = "getClass"
         /\ last'.name = last.name /\ OwnName(last.name))
        => /\ last'.ok
           /\ last'.ctor = last.ctor
           /\ last'.log = <<>>
           /\ ctors' = ctors ]_vars

\* a getClass answered from the map with a constructor that synthesis made
C1_Witness ==
  /\ last.op = "getClass" /\ last.ok /\ last.log = <<>>
  /\ last.ctor > 1
  /\ find(last.name) # {} /\ OwnName(last.name)
  /\ classMap[toLowerCase(last.name)] = last.ctor

\* C2 as claimed: when the metadata cache has no entry for X, or the entry has
\* no ecclass, getClass(X) fails with the metadata-not-found error and X is not
\* in the class map afterwards.
C2_MissingMetaDataAnyRegistry ==
  [][ (last'.op = "getClass" /\ NoIdentity(last'.name))
        => /\ ~last'.ok
           /\ last'.err = makeMetaDataNotFoundError
           /\ toLowerCase(last'.name) \notin DOMAIN classMap' ]_vars

\* C2 amended: when X is not registered and the metadata cache has no entry
\* for X, or the entry has no ecclass, getClass(X) fails with the
\* metadata-not-found error and X is not in the class map afterwards.
C2_MissingMetaData ==
  [][ (last'.op = "getClass" /\ NoIdentity(last'.name)
         /\ toLowerCase(last'.name) \notin DOMAIN classMap)
        => /\ ~last'.ok
           /\ last'.err = makeMetaDataNotFoundError
           /\ toLowerCase(last'.name) \notin DOMAIN classMap' ]_vars

\* getClass failed on an entry that is there but has no ecclass
C2_Witness ==
  /\ last.op = "getClass" /\ ~last.ok
  /\ last.err.madeBy = "makeMetaDataNotFoundError"
  /\ \E m \in find(last.name) : m.ecclass = {}
  /\ toLowerCase(last.name) \notin DOMAIN classMap

\* C4 as claimed: when getClass(C) succeeds where none of C's ancestors is
\* registered, every class of C's primary-base chain is registered afterwards,
\* each after its primary base, each with the registered constructor of its
\* primary base as parent.
C4_TopologicalAnyDescriptor ==
  [][ (last'.op = "getClass" /\ last'.ok
         /\ \A i \in 2..Len(Chain(last'.name)) :
              Chain(last'.name)[i] \notin DOMAIN classMap)
        => ChainRegistered(last'.name, classMap, classMap', ctors', last'.log) ]_vars

\* C4 amended: when getClass(C) succeeds where neither C nor any of C's
\* ancestors is registered and C's descriptor carries C as its own ecclass,
\* every class of C's primary-base chain is registered afterwards, each after
\* its primary base, each with the registered constructor of its primary base
\* as parent.
C4_Topological ==
  [][ (last'.op = "getClass" /\ last'.ok /\ OwnName(last'.name)
         /\ \A i \in 1..Len(Chain(last'.name)) :
              Chain(last'.name)[i] \notin DOMAIN classMap)
        => ChainRegistered(last'.name, classMap, classMap', ctors', last'.log) ]_vars

\* getClass of the leaf synthesized root, mid and leaf in one call
C4_Witness ==
  /\ last.op = "getClass" /\ last.ok
  /\ Len(Chain(last.name)) = 3
  /\ last.log = Reverse(Chain(last.name))
  /\ ctors[last.ctor].base = classMap[Chain(last.name)[2]]

\* C6 as claimed: getClass of two names that differ only in letter case gives
\* the same constructor and leaves one map entry, whichever is asked first.
C6_CaseInsensitiveAnyDescriptor ==
  [][ (last.op = "getClass" /\ last.ok /\ last'.op = "getClass"
         /\ last'.name # last.name
         /\ toLowerCase(last'.name) = toLowerCase(last.name))
        => /\ last'.ok
           /\ last'.ctor = last.ctor
           /\ classMap' = classMap
           /\ classMap'[toLowerCase(last'.name)] = last'.ctor ]_vars

\* C6 amended: when the descriptor cached for the name carries that name as its
\* own ecclass (ignoring case), getClass of two names that differ only in
\* letter case gives the same constructor and leaves one map entry, whichever
\* is asked first.
C6_CaseInsensitive ==
  [][ (last.op = "getClass" /\ last.ok /\ last'.op = "getClass"
         /\ last'.name # last.name
         /\ toLowerCase(last'.name) = toLowerCase(last.name)
         /\ OwnName(last.name))
        => /\ last'.ok
           /\ last'.ctor = last.ctor
           /\ classMap' = classMap
           /\ classMap'[toLowerCase(last'.name)] = last'.ctor ]_vars

\* getClass of the lower-cased name answered with the constructor registered
\* from a descriptor whose ecclass is written in upper case
C6_Witness ==
  /\ last.op = "getClass" /\ last.ok /\ last.log = <<>>
  /\ last.name = toLowerCase(MidName)
  /\ find(last.name) = {MidMeta}
  /\ ctors[last.ctor].name = <<"B">>

\* C8: with the metadata of S:A (no base), S:B (base S:A), S:C (base S:B) and
\* an empty class map, createInstance for S:C succeeds, the type chain of the
\* instance is C, B, A, and the class map then holds exactly three entries,
\* all under schema S.
C8_EndToEnd ==
  [][ (last'.op = "createInstance" /\ last'.name = LeafName
         /\ DOMAIN classMap = {} /\ registry = E2ERegistry)
        => /\ last'.ok
           /\ TypeChain(ctors', last'.ctor) = << <<"C">>, <<"B">>, <<"A">> >>
           /\ Cardinality(DOMAIN classMap') = 3
           /\ \A k \in DOMAIN classMap' :
                /\ split(k)[1] = <<"s">>
                /\ schemaObjs'[ctors'[classMap'[k]].schema] = <<"S">> ]_vars

C8_Witness ==
  /\ last.op = "createInstance" /\ last.name = LeafName /\ last.ok
  /\ registry = E2ERegistry
  /\ last.log = <<toLowerCase(RootName), toLowerCase(MidName), toLowerCase(LeafName)>>
  /\ Cardinality(DOMAIN classMap) = 3

\* C9: an operation that synthesizes a class whose schema name is not in the
\* schema directory leaves a Schema of that name registered, and the
\* constructor's schema is that Schema; a schema that was registered is neither
\* created again nor replaced.
C9_AutoVivifiedSchema ==
  [][ last'.op \in SynthesisOps
        => /\ \A c \in (Len(ctors) + 1)..Len(ctors') :
                /\ ctors'[c].schema # 0
                /\ MapHas(registeredSchemas', schemaObjs'[ctors'[c].schema])
                /\ registeredSchemas'[schemaObjs'[ctors'[c].schema]] = ctors'[c].schema
           /\ \A n \in DOMAIN registeredSchemas :
                MapHas(registeredSchemas', n)
                  /\ registeredSchemas'[n] = registeredSchemas[n]
           /\ \A i \in (Len(schemaObjs) + 1)..Len(schemaObjs') :
                /\ schemaObjs'[i] \notin DOMAIN registeredSchemas
                /\ registeredSchemas'[schemaObjs'[i]] = i
           /\ (last'.op = "generateClassForEntity" /\ last'.ok)
                => LET schema == split(last'.name)[1]
                   IN /\ MapHas(registeredSchemas', schema)
                      /\ schemaObjs'[registeredSchemas'[schema]] = schema
                      /\ ctors'[last'.ctor].schema = registeredSchemas'[schema]
                      /\ ~MapHas(registeredSchemas, schema)
                           => Len(schemaObjs') = Len(schemaObjs) + 1 ]_vars

\* the first synthesis made the proxy Schema, the second one used it
C9_Witness ==
  /\ last.op = "generateClassForEntity" /\ last.ok /\ last.ctor = 3
  /\ Len(schemaObjs) = 2
  /\ registeredSchemas[<<"S">>] = 2
  /\ ctors[2].schema = 2 /\ ctors[3].schema = 2

\* the mutable objects as the step leaves them
HeapAfter ==
  [classMap |-> classMap', ctors |-> ctors', schemaObjs |-> schemaObjs',
   registeredSchemas |-> registeredSchemas', log |-> <<>>]

UpperChar(c) ==
  CASE c = "s" -> "S" [] c = "a" -> "A" [] c = "b" -> "B" [] c = "c" -> "C"
    [] OTHER -> c

\* every way of writing name in upper- and lower-case letters
Casings(name) ==
  LET low == toLowerCase(name)
  IN { [i \in 1..Len(low) |-> IF i \in U THEN UpperChar(low[i]) ELSE low[i]] :
         U \in SUBSET (1..Len(low)) }

\* C11: registerEcClass(ctor) that returns inserts ctor under the lower-cased
\* "schema.name:name" and touches no other key; registering the same
\* constructor again leaves the class map as it is; afterwards isClassRegistered
\* of the schema name and class name is true and lookupClass returns ctor for
\* every letter-casing of the full name.
C11_IdempotentInsert ==
  [][ (last'.op = "registerEcClass" /\ last'.ok)
        => LET c == last'.ctor
               schemaName == schemaObjs'[ctors'[c].schema]
               className == ctors'[c].name
               key == toLowerCase(FullName(schemaName, className))
               again == registerEcClass(HeapAfter, c)
           IN /\ DOMAIN classMap' = DOMAIN classMap \cup {key}
              /\ classMap'[key] = c
              /\ \A k \in DOMAIN classMap : k # key => classMap'[k] = classMap[k]
              /\ again.ok
              /\ again.st.classMap = classMap'
              /\ isClassRegistered(HeapAfter, schemaName, className)
              /\ \A n \in Casings(FullName(schemaName, className)) :
                   lookupClass(HeapAfter, n) = c ]_vars

\* a synthesized constructor, registered when it was made, registered again
C11_Witness ==
  /\ last.op = "registerEcClass" /\ last.ok
  /\ last.ctor > 1
  /\ lookupClass(Heap, FullName(schemaObjs[ctors[last.ctor].schema],
                                ctors[last.ctor].name)) = last.ctor
  /\ Cardinality(DOMAIN classMap) > 1

\* C12: lookupClass and isClassRegistered change neither the class map nor the
\* constructors nor the schema directory nor the metadata cache, also when the
\* class is not registered and its metadata is cached; lookupClass then returns
\* undefined, and isClassRegistered answers whether the key is in the map.
C12_PureLookup ==
  [][ last'.op \in {"lookupClass", "isClassRegistered"}
        => /\ classMap' = classMap
           /\ ctors' = ctors
           /\ schemaObjs' = schemaObjs
           /\ registeredSchemas' = registeredSchemas
           /\ registry' = registry
           /\ last'.ok
           /\ (last'.op = "lookupClass"
                 /\ toLowerCase(last'.name) \notin DOMAIN classMap)
                => last'.ctor = 0
           /\ last'.op = "isClassRegistered"
                => last'.registered = (toLowerCase(last'.name) \in DOMAIN classMap) ]_vars

\* lookupClass of a class that is not registered and whose metadata, with its
\* whole chain, is cached
C12_Witness ==
  /\ last.op = "lookupClass" /\ last.ctor = 0
  /\ registry = E2ERegistry
  /\ last.name = LeafName
  /\ DOMAIN classMap = {}

\* C13 as claimed: after getClass(n) returned c, lookupClass(n) returns c and a
\* following getClass(n) is a map hit that returns c, whatever descriptor the
\* metadata cache holds under n.
C13_RegisteredUnderRequestedNameAnyDescriptor ==
  (last.op = "getClass" /\ last.ok)
    => /\ lookupClass(Heap, last.name) = last.ctor
       /\ getClass(Heap, last.name, 1) = Return(Heap, last.ctor)

\* C13 amended: when the descriptor cached for n carries n as its own ecclass
\* (ignoring case), after getClass(n) returned c, lookupClass(n) returns c and
\* a following getClass(n) is a map hit that returns c.
C13_RegisteredUnderRequestedName ==
  (last.op = "getClass" /\ last.ok /\ OwnName(last.name))
    => /\ lookupClass(Heap, last.name) = last.ctor
       /\ getClass(Heap, last.name, 1) = Return(Heap, last.ctor)

\* getClass synthesized the class it was asked for from its own descriptor
C13_Witness ==
  /\ last.op = "getClass" /\ last.ok
  /\ find(last.name) # {} /\ OwnName(last.name)
  /\ last.log # <<>>
  /\ last.log[Len(last.log)] = toLowerCase(last.name)
  /\ classMap[toLowerCase(last.name)] = last.ctor

\* some class of the primary-base chain of name has no usable metadata and is
\* not in map
MissingOnChain(name, map) ==
  LET chain == Chain(name)
  IN \E i \in 1..Len(chain) : NoIdentity(chain[i]) /\ chain[i] \notin DOMAIN map

\* the same, and no class of the chain from name down to that one is in map
ReachesMissing(name, map) ==
  LET chain == Chain(name)
  IN \E i \in 1..Len(chain) :
       /\ NoIdentity(chain[i])
       /\ \A j \in 1..i : chain[j] \notin DOMAIN map

\* the operations that resolve a class by name
ResolveOps == {"getClass", "createInstance"}

\* the step failed with the metadata-not-found error and left the class map,
\* the constructors and the schema directory as they were
FailedAtomically ==
  /\ ~last'.ok
  /\ last'.err = makeMetaDataNotFoundError
  /\ last'.log = <<>>
  /\ classMap' = classMap
  /\ ctors' = ctors
  /\ schemaObjs' = schemaObjs
  /\ registeredSchemas' = registeredSchemas

\* C14 as claimed: when some class of n's primary-base chain has no metadata
\* and is not registered, getClass(n) and createInstance for n fail with the
\* metadata-not-found error and leave the class map and the schema directory
\* as they were.
C14_MissingAncestorAnyRegistry ==
  [][ (last'.op \in ResolveOps /\ last'.name # <<>>
         /\ MissingOnChain(last'.name, classMap))
        => FailedAtomically ]_vars

\* C14 amended: when some class of n's primary-base chain has no metadata and
\* neither it nor any class of the chain between n and it (n included) is
\* registered, getClass(n) and createInstance for n fail with the
\* metadata-not-found error and leave the class map and the schema directory
\* as they were.
C14_MissingAncestor ==
  [][ (last'.op \in ResolveOps /\ last'.name # <<>>
         /\ ReachesMissing(last'.name, classMap))
        => FailedAtomically ]_vars

\* the leaf and its base have metadata, the root has none: the request for
\* the leaf failed two calls deep and nothing of the chain is registered
C14_Witness ==
  /\ last.op \in ResolveOps /\ last.name = LeafName
  /\ ~last.ok /\ last.err = makeMetaDataNotFoundError
  /\ find(LeafName) = {LeafMeta} /\ find(MidName) = {MidMeta}
  /\ NoIdentity(RootName)
  /\ DOMAIN classMap = {}
  /\ DOMAIN registeredSchemas = {}

\* the primary-base chain of name comes to an end without meeting a class twice
Acyclic(name) ==
  LET chain == Chain(name)
  IN \A i, j \in 1..Len(chain) : i # j => chain[i] # chain[j]

\* how many classes of the chain, from name on, come before the first one that
\* is in map
Walked(chain, map) ==
  CHOOSE k \in 0..Len(chain) :
    /\ \A j \in 1..k : chain[j] \notin DOMAIN map
    /\ k = Len(chain) \/ chain[k + 1] \in DOMAIN map

\* how many classes of the chain are not in map
Unregistered(chain, map) ==
  Cardinality({i \in 1..Len(chain) : chain[i] \notin DOMAIN map})

\* C15: when the primary-base chain of n is finite and acyclic, getClass(n)
\* returns or fails without exhausting the call stack, it synthesizes no class
\* beyond the first registered class of the chain or the root, and the number
\* of classes it synthesizes and registers is at most the number of
\* unregistered classes of the chain.
C15_Termination ==
  [][ (last'.op = "getClass" /\ Acyclic(last'.name))
        => LET chain == Chain(last'.name)
               steps == Len(ctors') - Len(ctors)
           IN /\ last'.err.cls # "RangeError"
              /\ steps <= Walked(chain, classMap)
              /\ Len(last'.log) <= Walked(chain, classMap)
              /\ steps <= Unregistered(chain, classMap) ]_vars

\* getClass of the leaf stopped at its registered base class: it synthesized
\* the leaf alone, with the root's metadata cached as well
C15_Witness ==
  /\ last.op = "getClass" /\ last.ok /\ last.name = LeafName
  /\ registry = E2ERegistry
  /\ last.log = <<toLowerCase(LeafName)>>
  /\ ctors[last.ctor].base = classMap[toLowerCase(MidName)]
  /\ last.ctor = Len(ctors)

\* C16: every constructor in the class map has a schema, and that Schema is
\* the one the schema directory holds under its name.
C16_SchemaInDirectory ==
  \A k \in DOMAIN classMap :
    LET schema == ctors[classMap[k]].schema
    IN /\ schema # 0
       /\ MapHas(registeredSchemas, schemaObjs[schema])
       /\ registeredSchemas[schemaObjs[schema]] = schema

\* the keys of the base classes of md after the first
Secondary(md) == {toLowerCase(md.baseClasses[i]) : i \in 2..Len(md.baseClasses)}

\* the set of the elements of a sequence
Range(seq) == {seq[i] : i \in 1..Len(seq)}

C18_LastWriteWins ==
  [][ /\ (last.op = "init") => (\A n \in ReqNames : find(n) = {})
      /\ (last'.op = "add")
           => /\ \A n \in ReqNames \cup {last'.name} :
                   find(n)' = IF toLowerCase(n) = toLowerCase(last'.name)
                              THEN last'.md ELSE find(n)
              /\ classMap' = classMap
      /\ (last'.op # "add") => (registry' = registry)
      /\ (last'.op = "find")
           => /\ last'.md = find(last'.name)
              /\ classMap' = classMap
              /\ ctors' = ctors ]_vars

\* find by the lower-cased name returned the descriptor that was added last
\* under the name written in upper case
C18_Witness ==
  /\ last.op = "find"
  /\ last.name = toLowerCase(MidName)
  /\ last.md = {RootMeta}
  /\ DOMAIN classMap # {}

====
